---- MODULE Spec2Model ----
\* WebsiteNavigator (src/main.py): the navigation loop visit_website, the
\* element extractor, the response interpreter and the action executor
\* _click_recommended_elements, with the decision oracle LoadGemini
\* (src/src/llm/load_model.py) and the Playwright page as environment.
\*
\* Two sessions of visit_website run side by side on the same instruction:
\* one whose oracle is a plain function ("sync") and one whose oracle is a
\* coroutine function ("async").  Each action is one step of the code; the
\* answer the environment gives in that step (page contents, click outcome,
\* oracle text) is handed to every session standing at that step, so both
\* sessions see the same site and the same oracle.  The sessions share no
\* state.
\*
\* Text is modelled at the level the code inspects it: an instruction is a
\* sequence of characters; an oracle output is a sequence of lines, each a
\* sequence of tokens: "fence" for the three-backquote delimiter, a language
\* tag, prose, or a whole JSON document named by its key in Docs.
\*
\* browser.close() is assumed to return.
EXTENDS Integers, Sequences, FiniteSets

VARIABLES prompt, MAX_TRIES, sess

vars == <<prompt, MAX_TRIES, sess>>

\* ------------------------------------------------------------------ bounds

\* Largest value of self.MAX_TRIES explored (the attribute is 100 by default).
MaxTriesBound == 2
\* Nesting of _click_recommended_elements inside itself at which the
\* interpreter's recursion limit is reached (about a thousand frames in
\* CPython; the nested frames are all alike, so a small limit is explored).
MaxDepth == 2
\* Longest list page.query_selector_all returns.
MaxElems == 2

\* ------------------------------------------------------------------ inputs

Sessions == {"sync", "async"}

\* Instructions given to visit_website, as characters.
Prompts ==
  { <<"g", " ", "h", "t", "t", "p", "s", ":", "/", "/", "a", "\"", "b">>,
    <<"g", "o", " ", "a">>,
    <<"h", "t", "t", "p", ":", "/", "/", " ", "a">> }

\* Elements a page can hold: a visible link, a visible button without text,
\* a hidden link, and an element whose handle fails when evaluated.
PageElements ==
  { [tag |-> "a", text |-> "Services", href |-> "#", visible |-> TRUE, ok |-> TRUE],
    [tag |-> "button", text |-> "", href |-> "", visible |-> TRUE, ok |-> TRUE],
    [tag |-> "a", text |-> "Hidden", href |-> "/h", visible |-> FALSE, ok |-> TRUE],
    [tag |-> "a", text |-> "Stale", href |-> "/s", visible |-> TRUE, ok |-> FALSE] }

ElementLists == UNION { [1..n -> PageElements] : n \in 0..MaxElems }

\* JSON documents the oracle can answer with, as json.loads returns them.
\* has_* says whether the key is present; isObject is FALSE for a JSON value
\* that is not an object (a list).
Doc(obj, ht, ha, hh, href, hn, ns) ==
  [isObject |-> obj, has_element_text |-> ht, element_text |-> "Services",
   has_element_attributes |-> ha, has_href |-> hh, href |-> href,
   has_next_steps |-> hn, next_steps |-> ns]

Docs ==
  [link_more   |-> Doc(TRUE, TRUE, TRUE, TRUE, "/services/pdf", TRUE, <<"open the pdf">>),
   link_exit   |-> Doc(TRUE, TRUE, TRUE, TRUE, "/services/pdf", TRUE, <<"exit_now">>),
   hash_more   |-> Doc(TRUE, TRUE, TRUE, TRUE, "#", TRUE, <<"pick a submenu entry">>),
   hash_exit   |-> Doc(TRUE, TRUE, TRUE, TRUE, "#", TRUE, <<"exit_now">>),
   nohref_more |-> Doc(TRUE, TRUE, TRUE, FALSE, "", TRUE, <<"open the pdf">>),
   no_text     |-> Doc(TRUE, FALSE, TRUE, TRUE, "/services/pdf", TRUE, <<"exit_now">>),
   no_attrs    |-> Doc(TRUE, TRUE, FALSE, FALSE, "", TRUE, <<"open the pdf">>),
   no_next     |-> Doc(TRUE, TRUE, TRUE, TRUE, "/services/pdf", FALSE, <<>>),
   empty_next  |-> Doc(TRUE, TRUE, TRUE, TRUE, "/services/pdf", TRUE, <<>>),
   a_list      |-> Doc(FALSE, FALSE, FALSE, FALSE, "", FALSE, <<>>)]

DocIds == DOMAIN Docs

Fenced(open, d) == <<open, <<d>>, <<"fence">>>>

\* Raw oracle outputs: prose, bare documents, and documents inside a fence
\* opened with the json tag, with no tag, or with another language tag.
OracleTexts ==
  {<< <<"prose">> >>}
    \cup { << <<d>> >> : d \in {"link_more", "no_next"} }
    \cup { Fenced(<<"fence", "json">>, d) : d \in DocIds }
    \cup { Fenced(<<"fence">>, "link_exit"), Fenced(<<"fence", "py">>, "link_more") }

\* ------------------------------------------------------- pure functions

\* Python's None where a string is expected.
None == <<>>

Whitespace == {" "}

\* p holds the characters w from position i on.
Lit(p, i, w) ==
  /\ i + Len(w) - 1 <= Len(p)
  /\ \A k \in 1..Len(w) : p[i + k - 1] = w[k]

\* Position after a match of https?:// at i, or 0.
SchemeEnd(p, i) ==
  IF Lit(p, i, <<"h", "t", "t", "p", "s", ":", "/", "/">>) THEN i + 8
  ELSE IF Lit(p, i, <<"h", "t", "t", "p", ":", "/", "/">>) THEN i + 7
  ELSE 0

\* A character of the class [^\s"].
UrlChar(ch) == ch \notin Whitespace /\ ch # "\""

\* The regular expression https?://[^\s"]+ matches at i.
MatchesAt(p, i) ==
  LET j == SchemeEnd(p, i) IN j # 0 /\ j <= Len(p) /\ UrlChar(p[j])

\* Last position of the (greedy) match that starts at i.
MatchEnd(p, i) ==
  LET j == SchemeEnd(p, i)
  IN CHOOSE e \in j..Len(p) :
       /\ \A k \in j..e : UrlChar(p[k])
       /\ (e = Len(p) \/ ~UrlChar(p[e + 1]))

StartsWith(u, w) == Lit(u, 1, w)

\* _extract_url_from_prompt: the first match of the expression, or None.
extract_url_from_prompt(p) ==
  LET starts == {i \in 1..Len(p) : MatchesAt(p, i)}
  IN IF starts = {} THEN None
     ELSE LET i == CHOOSE x \in starts : \A y \in starts : x <= y
              url == SubSeq(p, i, MatchEnd(p, i))
          IN IF \/ StartsWith(url, <<"h", "t", "t", "p", ":", "/", "/">>)
                \/ StartsWith(url, <<"h", "t", "t", "p", "s", ":", "/", "/">>)
             THEN url ELSE None

\* The dictionary _process_elements appends for one element.
ProcessedTag(el) ==
  [tag |-> el.tag,
   content |-> [text |-> IF el.text # "" THEN el.text ELSE "[No Text]",
                attributes |-> el.href,
                visible |-> el.visible]]

\* A _process_elements whose try block encloses the whole loop: the first
\* element that throws ends the processing.
RECURSIVE process_elements_until_failure(_)
process_elements_until_failure(elements) ==
  IF elements = <<>> THEN <<>>
  ELSE LET el == Head(elements)
       IN IF ~el.ok THEN <<>>
          ELSE IF el.visible
          THEN <<ProcessedTag(el)>> \o process_elements_until_failure(Tail(elements))
          ELSE process_elements_until_failure(Tail(elements))

\* _process_elements: visible elements in document order; an element whose
\* evaluation throws is skipped.
RECURSIVE process_elements(_)
process_elements(elements) ==
  IF elements = <<>> THEN <<>>
  ELSE LET el == Head(elements)
           rest == process_elements(Tail(elements))
       IN IF el.ok /\ el.visible THEN <<ProcessedTag(el)>> \o rest ELSE rest

\* _create_gemini_prompt: the task, the count and the list of tags inside a
\* fixed template.
create_gemini_prompt(user_prompt, tags) ==
  [task |-> user_prompt, found |-> Len(tags), available |-> tags]

\* No decision request is in flight.
NoRequest == [task |-> <<>>, found |-> 0, available |-> <<>>]

\* re.sub(r"^<fence>json|<fence>$", "", line) on one line (re.MULTILINE).
SubFences(line) ==
  LET a == IF Len(line) >= 2 /\ line[1] = "fence" /\ line[2] = "json"
           THEN SubSeq(line, 3, Len(line)) ELSE line
  IN IF Len(a) >= 1 /\ a[Len(a)] = "fence" THEN SubSeq(a, 1, Len(a) - 1) ELSE a

\* The tokens left in the text after the substitution; .strip() and the
\* line breaks between them are whitespace to json.loads.
RECURSIVE CleanJson(_)
CleanJson(text) ==
  IF text = <<>> THEN <<>> ELSE SubFences(Head(text)) \o CleanJson(Tail(text))

\* json.loads accepts the cleaned text: it is exactly one JSON document.
JsonLoads(clean) == Len(clean) = 1 /\ clean[1] \in DocIds

\* A value the oracle call leaves in response: the text, or (a coroutine
\* function called without await) a coroutine object that would yield it.
TextValue(text) == [isCoroutine |-> FALSE, text |-> text]
CoroutineValue == [isCoroutine |-> TRUE, text |-> <<>>]
NoResponse == TextValue(<<>>)

\* _extract_json_from_gemini_response raises: re.sub throws TypeError on a
\* value that is not a string, json.loads throws on malformed text.
InterpreterRaises(response) ==
  response.isCoroutine \/ ~JsonLoads(CleanJson(response.text))

\* _extract_json_from_gemini_response: the key of the parsed document.
extract_json_from_gemini_response(response) == CleanJson(response.text)[1]

\* Lines 134-138 raise KeyError, IndexError or TypeError on the document.
FieldsRaise(d) ==
  \/ ~d.isObject
  \/ ~d.has_element_text
  \/ ~d.has_element_attributes
  \/ ~d.has_next_steps
  \/ d.next_steps = <<>>

\* recommended_action['recommended_action']['element_attributes'].get('href', None)
HrefOf(d) == IF d.has_href THEN d.href ELSE "None"

\* ------------------------------------------------------------- the state

\* One call of visit_website.  conv is the calling convention of
\* gemini_object.gemini_response.  pc is the next step of the code; depth is
\* the number of _click_recommended_elements frames below the current one.
\* outcome names the return statement the executor left by (lines 182, 184,
\* and 167/191/195), terminal the way visit_website ended, result what it
\* returned ("None", "False", or the key of a document).  elements is the
\* list the last query returned, until it has been processed into a request;
\* dropdown tells how far the hover block of the current frame got; attempts
\* lists the selectors the current frame has clicked with, and how each
\* went; clicks counts the attempts that reached their return statement.
InitSession(c) ==
  [conv |-> c, pc |-> "launch", browser |-> "none", page |-> FALSE,
   launches |-> 0, closes |-> 0, url |-> None, tries |-> 0,
   processed_tags |-> <<>>, request |-> NoRequest,
   response |-> NoResponse, recommended_action |-> "",
   element_text |-> "", href |-> "", next_steps |-> "", depth |-> 0,
   retval |-> FALSE, outcome |-> "none", exc |-> "none",
   result |-> "unset", terminal |-> "running",
   oracle_calls |-> 0, hovers |-> 0, clicks |-> 0, selector |-> "none",
   elements |-> <<>>, dropdown |-> "none", attempts |-> <<>>]

Init ==
  /\ prompt \in Prompts
  /\ MAX_TRIES \in 1..MaxTriesBound
  /\ sess = [c \in Sessions |-> InitSession(c)]

\* The sessions standing at step p.
At(p) == {c \in Sessions : sess[c].pc = p}

\* In every action, each session standing at the action's step takes it,
\* with the same environment answer; the other session is left alone.

\* ------------------------------------------------------- control transfer

\* A return statement of visit_website: the finally clause runs next.
ReturnFromVisit(s, value, term) ==
  [s EXCEPT !.result = value, !.terminal = term, !.pc = "finally"]

\* An exception raised in the outer try block, outside the inner one.
RaiseOuter(s, e) == [s EXCEPT !.exc = e, !.pc = "except_outer"]

\* An exception raised inside the inner try block of the loop body.
RaiseInner(s, e) == [s EXCEPT !.exc = e, !.pc = "except_inner"]

\* A return statement of _click_recommended_elements.  Every enclosing
\* frame returns the value of the nested call unchanged (line 163).
ExecutorReturn(s, value, how) ==
  [s EXCEPT !.retval = value, !.outcome = how, !.depth = 0, !.pc = "returned"]

\* An exception raised in the hover block (lines 145-163) or escaping a
\* nested call made from it: line 165 catches it, line 167 returns False.
HoverExcept(s, e) == ExecutorReturn([s EXCEPT !.exc = e], FALSE, "failed")

\* An exception raised by line 125, before any try block of the frame: the
\* top-level frame passes it to visit_website, a nested frame to the hover
\* block of its caller.
InterpreterExcept(s, e) ==
  IF s.depth > 0 THEN HoverExcept(s, e) ELSE RaiseInner(s, e)

\* ------------------------------------------------------- visit_website

\* Line 29: browser = await p.chromium.launch(...)
LaunchStep(s, ok) ==
  IF ok THEN [s EXCEPT !.browser = "open", !.launches = @ + 1, !.pc = "new_page"]
  ELSE RaiseOuter(s, "LaunchError")

\* Line 30: page = await browser.new_page()
NewPageStep(s, ok) ==
  IF ok THEN [s EXCEPT !.page = TRUE, !.pc = "extract_url"]
  ELSE RaiseOuter(s, "PageError")

\* Lines 32-34: the URL of the instruction, or ValueError.
ExtractUrlStep(s) ==
  LET url == extract_url_from_prompt(prompt)
  IN IF url = None THEN RaiseOuter([s EXCEPT !.url = url], "ValueError")
     ELSE [s EXCEPT !.url = url, !.pc = "goto"]

\* Lines 36-37: await page.goto(self.url, timeout=30000)
GotoStep(s, ok) ==
  IF ok THEN [s EXCEPT !.pc = "loop"] ELSE RaiseOuter(s, "GotoError")

\* A loop that ends with return False when the tries are used up.
LoopStepReturnsFalse(s) ==
  IF s.tries < MAX_TRIES
  THEN [s EXCEPT !.tries = @ + 1, !.pc = "extract",
                 !.processed_tags = <<>>, !.recommended_action = "",
                 !.element_text = "", !.href = "", !.next_steps = "",
                 !.selector = "none", !.outcome = "none", !.retval = FALSE,
                 !.elements = <<>>, !.dropdown = "none", !.attempts = <<>>,
                 !.response = NoResponse, !.request = NoRequest]
  ELSE ReturnFromVisit(s, "False", "Exhausted")

\* Line 39: the next iteration of for _ in range(self.MAX_TRIES), or the
\* end of the loop, after which the function returns without a value.
LoopStep(s) ==
  IF s.tries < MAX_TRIES
  THEN [s EXCEPT !.tries = @ + 1, !.pc = "extract",
                 !.processed_tags = <<>>, !.recommended_action = "",
                 !.element_text = "", !.href = "", !.next_steps = "",
                 !.selector = "none", !.outcome = "none", !.retval = FALSE,
                 !.elements = <<>>, !.dropdown = "none", !.attempts = <<>>,
                 !.response = NoResponse, !.request = NoRequest]
  ELSE ReturnFromVisit(s, "None", "Exhausted")

\* Lines 40-45: query the page; no element at all returns None, otherwise
\* the elements are processed.
ExtractStep(s, raises, elements) ==
  IF raises THEN RaiseOuter(s, "PageError")
  ELSE IF elements = <<>> THEN ReturnFromVisit(s, "None", "NoElements")
  ELSE [s EXCEPT !.elements = elements,
                 !.processed_tags = process_elements(elements), !.pc = "oracle"]

\* Lines 48-56, the call: the decision request is built and sent, by await
\* when gemini_response is a coroutine function and directly otherwise.
AskOracleStep(s) ==
  [s EXCEPT !.request = create_gemini_prompt(prompt, s.processed_tags),
            !.elements = <<>>, !.processed_tags = <<>>, !.oracle_calls = @ + 1,
            !.pc = "oracle_wait"]

\* Lines 48-56, the return: the oracle answers with a text or throws.
OracleReplyStep(s, raises, text) ==
  LET t == [s EXCEPT !.request = NoRequest]
  IN IF raises THEN RaiseInner(t, "OracleError")
     ELSE [t EXCEPT !.response = TextValue(text), !.pc = "interpret"]

\* A loop that goes to its next iteration after a failed action.
AfterClickStepRetries(s) ==
  IF s.retval \/ s.outcome = "failed" THEN [s EXCEPT !.pc = "loop"]
  ELSE ReturnFromVisit(s, "False", "Completed")

\* Lines 58-61: continue on a true value, return False otherwise.
AfterClickStep(s) ==
  IF s.retval THEN [s EXCEPT !.pc = "loop"]
  ELSE ReturnFromVisit(s, "False",
                       IF s.outcome = "stop" THEN "Completed" ELSE "ActionFailed")

\* A handler that releases the browser itself and goes on with the loop.
ExceptInnerStepReleasesAndGoesOn(s) ==
  [s EXCEPT !.browser = "closed", !.page = FALSE, !.closes = @ + 1,
            !.pc = "loop"]

\* Lines 62-64: except Exception inside the loop.
ExceptInnerStep(s) == ReturnFromVisit(s, "None", "DecisionError")

\* Lines 66-68: except Exception around the whole session.
ExceptOuterStep(s) ==
  ReturnFromVisit(s, "None",
                  IF s.exc = "ValueError" THEN "InputError"
                  ELSE IF s.exc = "GotoError" THEN "NavigationError"
                  ELSE "Unexpected")

\* A finally clause that closes the browser only when no exception was
\* caught on the way.
FinallyStepOnSuccessOnly(s) ==
  IF s.browser # "none" /\ s.exc = "none"
  THEN [s EXCEPT !.browser = "closed", !.page = FALSE, !.closes = @ + 1,
                 !.pc = "done"]
  ELSE [s EXCEPT !.pc = "done"]

\* Lines 69-72: finally: close the browser if there is one.
FinallyStep(s) ==
  IF s.browser # "none"
  THEN [s EXCEPT !.browser = "closed", !.page = FALSE, !.closes = @ + 1,
                 !.pc = "done"]
  ELSE [s EXCEPT !.pc = "done"]

\* ------------------------------------------- _click_recommended_elements

\* The raw response is not read again once line 125 has run.
Consumed(s) == [s EXCEPT !.response = NoResponse]

\* Lines 124-125: parse the response.
InterpretStep(s) ==
  IF InterpreterRaises(s.response)
  THEN InterpreterExcept(Consumed(s), IF s.response.isCoroutine THEN "TypeError"
                                      ELSE "JSONDecodeError")
  ELSE [Consumed(s) EXCEPT
          !.recommended_action = extract_json_from_gemini_response(s.response),
          !.pc = "fields"]

\* Lines 133-142: read element_text, href and the first next step; any
\* exception here is caught by line 193 and line 195 returns False.
FieldsStep(s) ==
  LET d == Docs[s.recommended_action]
  IN IF FieldsRaise(d) THEN ExecutorReturn([s EXCEPT !.exc = "KeyError"], FALSE, "failed")
     ELSE [s EXCEPT !.element_text = d.element_text, !.href = HrefOf(d),
                    !.next_steps = d.next_steps[1],
                    !.dropdown = "none", !.attempts = <<>>, !.selector = "none",
                    !.pc = IF HrefOf(d) = "#" THEN "locate" ELSE "click_href"]

\* Lines 147-148: the list item around the link; without one the code falls
\* through to the selectors.
LocateStep(s, raises, found) ==
  IF raises THEN HoverExcept(s, "LocatorError")
  ELSE IF found THEN [s EXCEPT !.dropdown = "found", !.pc = "hover"]
  ELSE [s EXCEPT !.dropdown = "no_parent", !.pc = "click_href"]

\* Lines 149-151: hover and wait.
HoverStep(s, ok) ==
  IF ok THEN [s EXCEPT !.hovers = @ + 1, !.dropdown = "hovered",
                       !.pc = "sub_extract"]
  ELSE HoverExcept(s, "HoverError")

\* Lines 154-156: the elements after the hover; with none the code falls
\* through to the selectors.
SubExtractStep(s, raises, elements) ==
  IF raises THEN HoverExcept(s, "PageError")
  ELSE IF elements = <<>> THEN [s EXCEPT !.pc = "click_href"]
  ELSE [s EXCEPT !.elements = elements,
                 !.processed_tags = process_elements(elements),
                 !.pc = "sub_oracle"]

\* The question line 160 asks the oracle.
HoverQuestion(element_text) == <<"after hovering over", element_text>>

\* Line 163 without a recursion limit: the call made at depth MaxDepth
\* never comes back to its frame ("nesting" is a position no step leaves).
EnterNestedNoLimit(s, response) ==
  IF s.depth >= MaxDepth THEN [s EXCEPT !.pc = "nesting"]
  ELSE [s EXCEPT !.response = response, !.depth = @ + 1, !.pc = "interpret"]

\* Line 163, the call: the frame of the nested _click_recommended_elements
\* is entered, unless the interpreter's recursion limit is reached: the call
\* then raises RecursionError, an Exception, inside the try of line 145.
EnterNested(s, response) ==
  IF s.depth >= MaxDepth THEN HoverExcept(s, "RecursionError")
  ELSE [s EXCEPT !.response = response, !.depth = @ + 1, !.pc = "interpret"]

\* Lines 160-161, the call: gemini_response is called without await.  A
\* plain function sends the request; a coroutine function only returns a
\* coroutine object, which line 163 hands to the nested call.
AskSubOracleStep(s) ==
  IF s.conv = "async"
  THEN EnterNested([s EXCEPT !.elements = <<>>, !.processed_tags = <<>>],
                   CoroutineValue)
  ELSE [s EXCEPT !.request = create_gemini_prompt(HoverQuestion(s.element_text),
                                                s.processed_tags),
                 !.elements = <<>>, !.processed_tags = <<>>,
                 !.oracle_calls = @ + 1,
                 !.pc = "sub_oracle_wait"]

\* Lines 161-163, the return: the answer is handed to a nested
\* _click_recommended_elements; an exception goes to line 165.
SubOracleReplyStep(s, raises, text) ==
  LET t == [s EXCEPT !.request = NoRequest]
  IN IF raises THEN HoverExcept(t, "OracleError")
     ELSE EnterNested(t, TextValue(text))

\* The two return values of lines 181-184 exchanged.
ClickedReturnSwapped(s) ==
  IF s.next_steps = "exit_now" THEN ExecutorReturn(s, TRUE, "continue")
  ELSE ExecutorReturn(s, FALSE, "stop")

\* Lines 181-184: the value returned after a click that succeeded.
ClickedReturn(s) ==
  IF s.next_steps = "exit_now" THEN ExecutorReturn(s, FALSE, "stop")
  ELSE ExecutorReturn(s, TRUE, "continue")

\* One more entry in the list of selectors tried: clicked says that
\* page.click returned (line 176), ok that the wait of line 178 returned
\* too, so that the try body reached its return statement.
Attempted(s, sel, clicked, waited) ==
  [s EXCEPT !.attempts = Append(@, [selector |-> sel, clicked |-> clicked,
                                    ok |-> clicked /\ waited])]

\* A first selector whose success does not end the loop over the selectors.
ClickHrefStepGoesOn(s, clicked, waited) ==
  IF clicked /\ waited
  THEN [Attempted(s, "href", clicked, waited) EXCEPT
          !.clicks = @ + 1, !.selector = "href", !.pc = "click_text"]
  ELSE [Attempted(s, "href", clicked, waited) EXCEPT !.pc = "click_text"]

\* Lines 175-188, first selector: a[href='...'].  The click and the wait
\* after it are in one try body: an exception of either goes to line 186,
\* which goes on with the next selector.
ClickHrefStep(s, clicked, waited) ==
  IF clicked /\ waited
  THEN ClickedReturn([Attempted(s, "href", clicked, waited) EXCEPT
                        !.clicks = @ + 1, !.selector = "href"])
  ELSE [Attempted(s, "href", clicked, waited) EXCEPT !.pc = "click_text"]

\* Lines 175-191, second selector: a:has-text('...'); line 191 after it.
ClickTextStep(s, clicked, waited) ==
  IF clicked /\ waited
  THEN ClickedReturn([Attempted(s, "text", clicked, waited) EXCEPT
                        !.clicks = @ + 1, !.selector = "text"])
  ELSE ExecutorReturn(Attempted(s, "text", clicked, waited), FALSE, "failed")

\* ---------------------------------------------------------------- actions

Launch == \E ok \in BOOLEAN :
    /\ At("launch") # {}
    /\ sess' = [c \in Sessions |-> IF sess[c].pc = "launch"
                                  THEN LaunchStep(sess[c], ok) ELSE sess[c]]
    /\ UNCHANGED <<prompt, MAX_TRIES>>

NewPage == \E ok \in BOOLEAN :
    /\ At("new_page") # {}
    /\ sess' = [c \in Sessions |-> IF sess[c].pc = "new_page"
                                  THEN NewPageStep(sess[c], ok) ELSE sess[c]]
    /\ UNCHANGED <<prompt, MAX_TRIES>>

ExtractUrl ==
  /\ At("extract_url") # {}
  /\ sess' = [c \in Sessions |-> IF sess[c].pc = "extract_url"
                                THEN ExtractUrlStep(sess[c]) ELSE sess[c]]
  /\ UNCHANGED <<prompt, MAX_TRIES>>

Goto == \E ok \in BOOLEAN :
    /\ At("goto") # {}
    /\ sess' = [c \in Sessions |-> IF sess[c].pc = "goto"
                                  THEN GotoStep(sess[c], ok) ELSE sess[c]]
    /\ UNCHANGED <<prompt, MAX_TRIES>>

Loop ==
  /\ At("loop") # {}
  /\ sess' = [c \in Sessions |-> IF sess[c].pc = "loop"
                                THEN LoopStep(sess[c]) ELSE sess[c]]
  /\ UNCHANGED <<prompt, MAX_TRIES>>

Extract ==
  \E raises \in BOOLEAN, elements \in ElementLists :
    /\ raises => elements = <<>>
    /\ At("extract") # {}
    /\ sess' = [c \in Sessions |-> IF sess[c].pc = "extract"
                                  THEN ExtractStep(sess[c], raises, elements) ELSE sess[c]]
    /\ UNCHANGED <<prompt, MAX_TRIES>>

AskOracle ==
  /\ At("oracle") # {}
  /\ sess' = [c \in Sessions |-> IF sess[c].pc = "oracle"
                                THEN AskOracleStep(sess[c]) ELSE sess[c]]
  /\ UNCHANGED <<prompt, MAX_TRIES>>

OracleReply ==
  \E raises \in BOOLEAN, text \in OracleTexts :
    /\ raises => text = << <<"prose">> >>
    /\ At("oracle_wait") # {}
    /\ sess' = [c \in Sessions |-> IF sess[c].pc = "oracle_wait"
                                  THEN OracleReplyStep(sess[c], raises, text) ELSE sess[c]]
    /\ UNCHANGED <<prompt, MAX_TRIES>>

Interpret ==
  /\ At("interpret") # {}
  /\ sess' = [c \in Sessions |-> IF sess[c].pc = "interpret"
                                THEN InterpretStep(sess[c]) ELSE sess[c]]
  /\ UNCHANGED <<prompt, MAX_TRIES>>

Fields ==
  /\ At("fields") # {}
  /\ sess' = [c \in Sessions |-> IF sess[c].pc = "fields"
                                THEN FieldsStep(sess[c]) ELSE sess[c]]
  /\ UNCHANGED <<prompt, MAX_TRIES>>

Locate ==
  \E raises, found \in BOOLEAN :
    /\ raises => ~found
    /\ At("locate") # {}
    /\ sess' = [c \in Sessions |-> IF sess[c].pc = "locate"
                                  THEN LocateStep(sess[c], raises, found) ELSE sess[c]]
    /\ UNCHANGED <<prompt, MAX_TRIES>>

Hover == \E ok \in BOOLEAN :
    /\ At("hover") # {}
    /\ sess' = [c \in Sessions |-> IF sess[c].pc = "hover"
                                  THEN HoverStep(sess[c], ok) ELSE sess[c]]
    /\ UNCHANGED <<prompt, MAX_TRIES>>

SubExtract ==
  \E raises \in BOOLEAN, elements \in ElementLists :
    /\ raises => elements = <<>>
    /\ At("sub_extract") # {}
    /\ sess' = [c \in Sessions |-> IF sess[c].pc = "sub_extract"
                                  THEN SubExtractStep(sess[c], raises, elements) ELSE sess[c]]
    /\ UNCHANGED <<prompt, MAX_TRIES>>

AskSubOracle ==
  /\ At("sub_oracle") # {}
  /\ sess' = [c \in Sessions |-> IF sess[c].pc = "sub_oracle"
                                THEN AskSubOracleStep(sess[c]) ELSE sess[c]]
  /\ UNCHANGED <<prompt, MAX_TRIES>>

SubOracleReply ==
  \E raises \in BOOLEAN, text \in OracleTexts :
    /\ raises => text = << <<"prose">> >>
    /\ At("sub_oracle_wait") # {}
    /\ sess' = [c \in Sessions |-> IF sess[c].pc = "sub_oracle_wait"
                                  THEN SubOracleReplyStep(sess[c], raises, text) ELSE sess[c]]
    /\ UNCHANGED <<prompt, MAX_TRIES>>

ClickHref == \E clicked, waited \in BOOLEAN :
    /\ waited => clicked
    /\ At("click_href") # {}
    /\ sess' = [c \in Sessions |-> IF sess[c].pc = "click_href"
                                  THEN ClickHrefStep(sess[c], clicked, waited)
                                  ELSE sess[c]]
    /\ UNCHANGED <<prompt, MAX_TRIES>>

ClickText == \E clicked, waited \in BOOLEAN :
    /\ waited => clicked
    /\ At("click_text") # {}
    /\ sess' = [c \in Sessions |-> IF sess[c].pc = "click_text"
                                  THEN ClickTextStep(sess[c], clicked, waited)
                                  ELSE sess[c]]
    /\ UNCHANGED <<prompt, MAX_TRIES>>

AfterClick ==
  /\ At("returned") # {}
  /\ sess' = [c \in Sessions |-> IF sess[c].pc = "returned"
                                THEN AfterClickStep(sess[c]) ELSE sess[c]]
  /\ UNCHANGED <<prompt, MAX_TRIES>>

ExceptInner ==
  /\ At("except_inner") # {}
  /\ sess' = [c \in Sessions |-> IF sess[c].pc = "except_inner"
                                THEN ExceptInnerStep(sess[c]) ELSE sess[c]]
  /\ UNCHANGED <<prompt, MAX_TRIES>>

ExceptOuter ==
  /\ At("except_outer") # {}
  /\ sess' = [c \in Sessions |-> IF sess[c].pc = "except_outer"
                                THEN ExceptOuterStep(sess[c]) ELSE sess[c]]
  /\ UNCHANGED <<prompt, MAX_TRIES>>

Finally ==
  /\ At("finally") # {}
  /\ sess' = [c \in Sessions |-> IF sess[c].pc = "finally"
                                THEN FinallyStep(sess[c]) ELSE sess[c]]
  /\ UNCHANGED <<prompt, MAX_TRIES>>

Next ==
  \/ Launch \/ NewPage \/ ExtractUrl \/ Goto \/ Loop \/ Extract
  \/ AskOracle \/ OracleReply \/ Interpret \/ Fields \/ Locate \/ Hover
  \/ SubExtract \/ AskSubOracle \/ SubOracleReply \/ ClickHref \/ ClickText \/ AfterClick \/ ExceptInner \/ ExceptOuter
  \/ Finally

Spec == Init /\ [][Next]_vars

\* ----------------------------------------------------------------- claims

Done(c) == sess[c].pc = "done"

\* C1: in every session that acquired the browser, the browser is closed
\* exactly once when visit_website has ended, whatever the exit path, and it
\* is never closed twice.
C1_ReleasedExactlyOnce ==
  \A c \in Sessions :
    /\ sess[c].closes <= 1
    /\ sess[c].closes <= sess[c].launches
    /\ (Done(c) /\ sess[c].launches = 1) =>
         (sess[c].closes = 1 /\ sess[c].browser = "closed")

\* A session that ran out of tries, and one that died of an unexpected error
\* between launch and loop, have both closed the browser they acquired.
C1_Witness ==
  \E c \in Sessions :
    /\ Done(c) /\ sess[c].launches = 1 /\ sess[c].closes = 1
    /\ sess[c].terminal \in {"Unexpected", "NavigationError"}

\* C2: when the instruction holds no URL, no browser is launched and no page
\* is created in the session.
C2_NoBrowserWithoutUrl ==
  \A c \in Sessions :
    extract_url_from_prompt(prompt) = None =>
      (sess[c].launches = 0 /\ sess[c].browser = "none" /\ ~sess[c].page)

\* C3: a decision request is sent at top level only for an observation with
\* at least one visible element; with none the session ends in NoElements
\* with the result None.
C3_NoOracleOnEmptyObservation ==
  \A c \in Sessions :
    sess[c].pc = "oracle_wait" => sess[c].request.found > 0

\* C4: a session ended by the interpreter failing on malformed oracle text,
\* at top level or in a nested call, ends in DecisionError with the result
\* None and the browser closed once.
C4_ParseFailureIsDecisionError ==
  \A c \in Sessions :
    (Done(c) /\ sess[c].exc = "JSONDecodeError") =>
      /\ sess[c].terminal = "DecisionError"
      /\ sess[c].result = "None"
      /\ sess[c].closes = 1

\* C5: a session whose executor returned stop ends in Completed and returns
\* the last action recommendation.
C5_CompletedReturnsRecommendation ==
  \A c \in Sessions :
    (Done(c) /\ sess[c].outcome = "stop") =>
      /\ sess[c].terminal = "Completed"
      /\ sess[c].result = sess[c].recommended_action

\* C6: a session that ends in ActionFailed and a session that ends in
\* Completed never return the same value.
C6_FailureDistinctFromSuccess ==
  \A c, d \in Sessions :
    (Done(c) /\ Done(d) /\ sess[c].terminal = "ActionFailed"
       /\ sess[d].terminal = "Completed") =>
      sess[c].result # sess[d].result

\* C7 as claimed: a session whose budget is used up while the last action
\* returned continue ends in Exhausted and returns False.
C7_ExhaustedReturnsFalse ==
  \A c \in Sessions :
    (Done(c) /\ sess[c].tries = MAX_TRIES /\ sess[c].outcome = "continue") =>
      (sess[c].terminal = "Exhausted" /\ sess[c].result = "False")

\* C7 as amended: a session whose budget is used up while the last action
\* returned continue ends in Exhausted, not Completed, and returns None, the
\* result of NoElements and DecisionError; the browser is closed once.
C7_ExhaustedReturnsNone ==
  \A c \in Sessions :
    (Done(c) /\ sess[c].tries = MAX_TRIES /\ sess[c].outcome = "continue") =>
      /\ sess[c].terminal = "Exhausted"
      /\ sess[c].result = "None"
      /\ sess[c].clicks = MAX_TRIES
      /\ sess[c].closes = 1

\* Scenario C: budget 1, the first action returns continue.
C7_Witness ==
  \E c \in Sessions :
    /\ Done(c) /\ MAX_TRIES = 1 /\ sess[c].tries = 1
    /\ sess[c].outcome = "continue" /\ sess[c].terminal = "Exhausted"

\* C8: after a click that succeeded, by either selector, at top level or in
\* a nested call, on a recommendation whose first next step is exit_now, the
\* executor returns by the stop statement with a false value, never a true
\* one, and the session goes from there to its end without another
\* iteration.  The value is false as well when the click returned and the
\* wait after it did not.
C8_ExitNowStops ==
  /\ [](\A c \in Sessions :
          (sess[c].pc = "returned" /\ sess[c].selector # "none"
             /\ sess[c].next_steps = "exit_now") =>
            (sess[c].outcome = "stop" /\ ~sess[c].retval))
  /\ [](\A c \in Sessions :
          (sess[c].pc = "returned" /\ sess[c].next_steps = "exit_now"
             /\ \E i \in DOMAIN sess[c].attempts : sess[c].attempts[i].clicked) =>
            ~sess[c].retval)
  /\ [][\A c \in Sessions :
          (sess[c].outcome = "stop" /\ sess[c].pc \in {"returned", "finally"}) =>
            /\ sess'[c].pc \in {"returned", "finally", "done"}
            /\ sess'[c].tries = sess[c].tries
            /\ sess'[c].clicks = sess[c].clicks
            /\ sess'[c].oracle_calls = sess[c].oracle_calls]_vars

\* The text selector clicked an exit_now recommendation chosen after a hover.
C8_Witness ==
  \E c \in Sessions :
    /\ sess[c].pc = "returned" /\ sess[c].selector = "text"
    /\ sess[c].next_steps = "exit_now" /\ sess[c].hovers >= 1
    /\ sess[c].oracle_calls >= 2

\* C9: a session whose oracle answered with a document that lacks
\* element_text or next_steps, or whose next_steps is empty, ends in
\* DecisionError with the result None.
C9_MissingFieldsIsDecisionError ==
  \A c \in Sessions :
    (Done(c) /\ sess[c].exc = "KeyError") =>
      (sess[c].terminal = "DecisionError" /\ sess[c].result = "None")

\* C10: on the same site and with the same oracle answers, the session with
\* the plain oracle and the session with the coroutine oracle end in the
\* same way, with the same result, after the same clicks and hovers.
C10_ConventionsAgree ==
  (Done("sync") /\ Done("async")) =>
    /\ sess["sync"].terminal = sess["async"].terminal
    /\ sess["sync"].result = sess["async"].result
    /\ sess["sync"].clicks = sess["async"].clicks
    /\ sess["sync"].hovers = sess["async"].hovers

\* What the interpreter makes of a raw text: the key of the parsed
\* document, or "raises".
ParseOf(text) ==
  IF InterpreterRaises(TextValue(text)) THEN "raises"
  ELSE extract_json_from_gemini_response(TextValue(text))

\* A text of three lines: an opening fence with or without a language tag, a
\* body, a closing fence.
IsFenced(text) ==
  /\ Len(text) = 3
  /\ Len(text[1]) \in {1, 2} /\ text[1][1] = "fence"
  /\ text[3] = <<"fence">>

\* C11: for every oracle output wrapped in an opening fence line, with any
\* language tag or none, and a closing fence line, the interpreter gives what
\* it gives for the unwrapped text.
C11_FenceStrippingIsTransparent ==
  \A c \in Sessions :
    (sess[c].pc = "interpret" /\ ~sess[c].response.isCoroutine
       /\ IsFenced(sess[c].response.text)) =>
      ParseOf(sess[c].response.text) = ParseOf(<<sess[c].response.text[2]>>)

\* C12: the selectors a recommendation is clicked with are tried in a fixed
\* order: the href selector first, the text selector second and only after
\* the href selector has failed; nothing is tried after that.
C12_SelectorOrder ==
  \A c \in Sessions :
    LET a == sess[c].attempts
    IN /\ Len(a) <= 2
       /\ Len(a) >= 1 => a[1].selector = "href"
       /\ Len(a) = 2 => (~a[1].ok /\ a[2].selector = "text")
       /\ sess[c].pc = "click_text" => (Len(a) = 1 /\ ~a[1].ok)
       /\ sess[c].pc = "click_href" => a = <<>>

\* The href selector failed and the text selector then clicked.
C12_Witness ==
  \E c \in Sessions :
    /\ Len(sess[c].attempts) = 2 /\ sess[c].attempts[2].ok
    /\ sess[c].selector = "text"

\* C13: when the recommended href is "#" and the list item is not found, or
\* the hover fails, no selector is clicked for that recommendation and the
\* executor returns by a failure statement.
C13_NoHoverMeansFailed ==
  \A c \in Sessions :
    (sess[c].href = "#"
       /\ (sess[c].dropdown = "no_parent" \/ sess[c].exc = "HoverError")) =>
      /\ sess[c].attempts = <<>>
      /\ sess[c].pc \in {"click_href", "returned", "finally", "done"}
      /\ sess[c].pc # "click_href" => sess[c].outcome = "failed"

C15_OracleCallsWithinBudget ==
  \A c \in Sessions : sess[c].oracle_calls <= MAX_TRIES

\* Every step of a session is one page operation, one oracle call or plain
\* computation; each returns or fails, so a session that can take a step
\* eventually takes one.
FairSpec == Spec /\ WF_vars(Next)

\* The ways visit_website ends: the five terminal states of the decision
\* loop and the three failures before or outside a decision.
TerminalStates ==
  {"Completed", "NoElements", "DecisionError", "ActionFailed", "Exhausted",
   "InputError", "NavigationError", "Unexpected"}

Failed(c) == sess[c].exc = "OracleError" \/ sess[c].outcome = "failed"

\* C17: there is no retry.  Once an oracle call has failed or the executor
\* has returned failed, the session makes no further oracle call, hover or
\* click and starts no further iteration: all it still does is report the
\* result and release the browser.
C17_NoRetryAfterFailure ==
  /\ [](\A c \in Sessions :
          Failed(c) => sess[c].pc \in {"returned", "except_inner",
                                       "finally", "done"})
  /\ [][\A c \in Sessions :
          Failed(c) =>
            /\ sess'[c].oracle_calls = sess[c].oracle_calls
            /\ sess'[c].hovers = sess[c].hovers
            /\ sess'[c].clicks = sess[c].clicks
            /\ sess'[c].attempts = sess[c].attempts
            /\ sess'[c].tries = sess[c].tries
            /\ sess'[c] # sess[c] => sess'[c].pc \in {"finally", "done"}]_vars

\* A session that ended after a failed nested oracle call, with another
\* iteration still in its budget.
C17_Witness ==
  \E c \in Sessions :
    /\ Done(c)
    /\ sess[c].exc = "OracleError"
    /\ sess[c].outcome = "failed"
    /\ sess[c].hovers = 1
    /\ sess[c].tries < MAX_TRIES
    /\ sess[c].result = "False"

\* Positions of the elements that are visible and whose evaluation does not
\* throw.
Kept(elements) ==
  {i \in 1..Len(elements) : elements[i].ok /\ elements[i].visible}

\* C18: the observation built from extracted elements is exactly the
\* subsequence, in document order, of the elements that are visible and do
\* not fail: the k-th kept element is the k-th entry, and a failing element
\* removes nothing but itself.
C18_ObservationIsKeptSubsequence ==
  \A c \in Sessions :
    sess[c].pc \in {"oracle", "sub_oracle"} =>
      LET e == sess[c].elements
          t == sess[c].processed_tags
      IN /\ Len(t) = Cardinality(Kept(e))
         /\ \A i \in Kept(e) :
              t[Cardinality({j \in Kept(e) : j <= i})] = ProcessedTag(e[i])

\* A failing element followed by a visible one, which is kept.
C18_Witness ==
  \E c \in Sessions :
    /\ sess[c].pc = "oracle"
    /\ Len(sess[c].elements) = 2
    /\ ~sess[c].elements[1].ok
    /\ Kept(sess[c].elements) = {2}
    /\ sess[c].processed_tags = <<ProcessedTag(sess[c].elements[2])>>

\* C19: when the recommendation has href "#", its list item is found, the
\* hover succeeds and the re-extraction is not empty, the executor makes
\* exactly one further oracle call, and what it then executes is the
\* recommendation that call answered with.
C19_HoverMakesOneNestedDecision ==
  /\ [][\A c \in Sessions :
          (sess[c].pc = "sub_oracle" /\ sess'[c].pc # "sub_oracle") =>
            /\ sess'[c].oracle_calls = sess[c].oracle_calls + 1
            /\ sess'[c].pc = "sub_oracle_wait"]_vars
  /\ [](\A c \in Sessions :
          (sess[c].depth > 0 /\ sess[c].pc = "interpret") =>
            ~sess[c].response.isCoroutine)

\* Positions whose step is a page operation (navigation, query, locator,
\* hover, click) or an oracle call.
OperationSteps ==
  {"goto", "extract", "oracle", "oracle_wait", "locate", "hover",
   "sub_extract", "sub_oracle", "sub_oracle_wait", "click_href", "click_text"}

\* C20: page operations and oracle calls happen only between the
\* acquisition of browser and page and the release of the browser: none
\* before both are acquired, none after the release.
C20_OperationsOnlyWhileAcquired ==
  /\ [](\A c \in Sessions :
          /\ sess[c].pc \in OperationSteps =>
               (sess[c].browser = "open" /\ sess[c].page)
          /\ sess[c].browser = "closed" => Done(c)
          /\ ~sess[c].page =>
               sess[c].pc \in {"launch", "new_page", "except_outer",
                               "finally", "done"})
  /\ [][\A c \in Sessions :
          (\/ sess'[c].oracle_calls # sess[c].oracle_calls
           \/ sess'[c].hovers # sess[c].hovers
           \/ sess'[c].clicks # sess[c].clicks
           \/ sess'[c].attempts # sess[c].attempts) =>
            /\ sess[c].browser = "open" /\ sess[c].page
            /\ sess'[c].browser = "open" /\ sess'[c].page]_vars

\* A session that made oracle calls, a hover and a click, and has released
\* its browser.
C20_Witness ==
  \E c \in Sessions :
    /\ Done(c)
    /\ sess[c].browser = "closed"
    /\ sess[c].closes = 1
    /\ sess[c].oracle_calls >= 2
    /\ sess[c].hovers >= 1
    /\ sess[c].clicks >= 1

\* Attempts of the current iteration whose page.click returned.  All clicks
\* of an iteration are made by one frame: a frame that makes a nested call
\* returns its value without clicking.
ClicksOnPage(c) ==
  {i \in DOMAIN sess[c].attempts : sess[c].attempts[i].clicked}

\* C21: an iteration of the loop clicks the page successfully at most once:
\* no selector is tried after one whose click succeeded; and a session never
\* runs more than MAX_TRIES iterations.
C21_OneClickPerIteration ==
  \A c \in Sessions :
    /\ sess[c].tries <= MAX_TRIES
    /\ Cardinality(ClicksOnPage(c)) <= 1
    /\ \A i \in ClicksOnPage(c) : i = Len(sess[c].attempts)

====
